---- MODULE Spec2Model ----
(***************************************************************************)
(* hearth.py: the SQLite store behind main()'s ingestion steps             *)
(* (populate_card_db, populate_collection_db, populate_deck_db), the       *)
(* report query get_db_card_percentages, and the control flow of main().   *)
(*                                                                         *)
(* Spec      the store as one cursor sees it under any sequence of the     *)
(*           three ingestion calls and the report query.                   *)
(* SpecMain  one run of main() on a new hearth.db: argument and            *)
(*           configuration choice, the selected steps in the order of the  *)
(*           code, the commit, the report.                                 *)
(* SpecListing  one call of get_decks or get_decks_per_class, a step per   *)
(*           listing page requested.                                       *)
(* SpecRuns  runs of main() one after another on the same hearth.db, with  *)
(*           what each run leaves in the file.                             *)
(*                                                                         *)
(* SQL REAL values (avg(...), the percentage) are exact fractions          *)
(* [num, den] in lowest terms; SQL NULL is the empty set and a present     *)
(* row is a singleton.  The order of the report's rows (order by Total     *)
(* desc) is not represented: the report is the set of its rows.            *)
(***************************************************************************)
EXTENDS Integers, Sequences, FiniteSets, TLC

\* Bounds of the inputs.
MaxCatalog == 3
MaxCollection == 2
MaxDecks == 2

(***************************************************************************)
(* The outside world: the catalog API, the collection endpoint, the card   *)
(* pages and the deck pages of the site.                                   *)
(***************************************************************************)

\* Cards the catalog API can return.  "A" exists in two sets, one of them
\* outside the report's allow-list; the Basic "A" has no playerClass key.
CatalogSeq ==
    << [name |-> "A", cardSet |-> "Basic", type |-> "Minion",
        rarity |-> "Free"],
       [name |-> "A", cardSet |-> "Classic", type |-> "Minion",
        rarity |-> "Common", playerClass |-> "Mage"],
       [name |-> "Jaina", cardSet |-> "Classic", type |-> "Hero",
        rarity |-> "Free", playerClass |-> "Mage"],
       [name |-> "B", cardSet |-> "Journey to Un'Goro", type |-> "Spell",
        rarity |-> "Rare"],
       [name |-> "Medivh", cardSet |-> "Hero Skins", type |-> "Minion",
        rarity |-> "Epic", playerClass |-> "Mage"] >>

CatalogUniverse == {CatalogSeq[i] : i \in DOMAIN CatalogSeq}

\* Keys of the catalog JSON object, in the order .items() yields them.
\* "Debug" is a set without collectible cards: its list is always empty.
CardSetOrder ==
    <<"Basic", "Classic", "Journey to Un'Goro", "Hero Skins", "Debug">>

CardSetKeys == {CardSetOrder[i] : i \in DOMAIN CardSetOrder}

\* The JSON object the API returns for the cards in S: cardSet -> list.
CatalogResponse(S) ==
    [k \in CardSetKeys |->
        SelectSeq(CatalogSeq, LAMBDA c : c \in S /\ c.cardSet = k)]

Catalogs ==
    {CatalogResponse(S) :
        S \in {T \in SUBSET CatalogUniverse : Cardinality(T) <= MaxCatalog}}

\* The site's card page of an external card id: the name in its header.
CardPage == (1 :> "A") @@ (2 :> "B")

\* collection['cards']: entries {externalID, count}.  The owner has three
\* copies of card 1 and one of card 2; a response lists some of them.
CollectionEntries ==
    {[externalID |-> 1, count |-> 3], [externalID |-> 2, count |-> 1]}

Collections ==
    UNION {[1..n -> CollectionEntries] : n \in 0..MaxCollection}

\* A card row of a deck page carries "&#215; n" or no such glyph.
NoGlyph == -1

\* The class and neutral detail pages of the site's decks: the td.col-name
\* elements, each with its anchor text and its glyph.  Deck 2 has a row
\* without glyph and a card the catalog does not know; deck 3 names "A" on
\* both pages.
DeckPages ==
    (1 :> [class   |-> << [a |-> "A", glyph |-> 2] >>,
           neutral |-> << [a |-> "B", glyph |-> 1] >>]) @@
    (2 :> [class   |-> << [a |-> "A", glyph |-> NoGlyph] >>,
           neutral |-> << [a |-> "C", glyph |-> 1] >>]) @@
    (3 :> [class   |-> << [a |-> "A", glyph |-> 2] >>,
           neutral |-> << [a |-> "A", glyph |-> 1] >>])

SiteDeckIds == DOMAIN DeckPages

\* A row of the listing as get_deck_metainfo returns it:
\* (link, class, type, rating, dust, epoch).
Stub(id) ==
    <<id, "Mage", "Tempo", 10 + id, 1200, 1000 + id>>

\* What get_deck_metainfo can return: up to MaxDecks rows, repeats allowed.
Listings ==
    UNION {[1..n -> {Stub(id) : id \in SiteDeckIds}] : n \in 0..MaxDecks}

(***************************************************************************)
(* Deck objects and the deck detail fetcher.                               *)
(***************************************************************************)

Card(cardname, amount) == [cardname |-> cardname, amount |-> amount]

Deck(deckid, hero, decktype, rating, dust, updated, decklist) ==
    [deckid |-> deckid, hero |-> hero, type |-> decktype, rating |-> rating,
     dust |-> dust, updated |-> updated, decklist |-> decklist]

\* The loop body of get_deck_list: name from the anchor, amount from the
\* glyph, 0 when the pattern is not found.
CardOfElement(element) ==
    Card(element.a, IF element.glyph = NoGlyph THEN 0 ELSE element.glyph)

\* The detail pages of a deck id; the decks of the listing pages other than
\* 1..3 have pages without card rows.
DeckPageOf(deckid) ==
    IF deckid \in DOMAIN DeckPages THEN DeckPages[deckid]
    ELSE [class |-> << >>, neutral |-> << >>]

\* Faulty variant: an element without amount is left out of the list.
get_deck_list_dropping_gaps(deckid) ==
    LET cardelements ==
            SelectSeq(DeckPageOf(deckid).class \o DeckPageOf(deckid).neutral,
                      LAMBDA element : element.glyph # NoGlyph)
    IN  [i \in 1..Len(cardelements) |-> CardOfElement(cardelements[i])]

\* Class elements, then neutral elements, one Card per element.
get_deck_list(deckid) ==
    LET cardelements == DeckPageOf(deckid).class \o DeckPageOf(deckid).neutral
    IN  [i \in 1..Len(cardelements) |-> CardOfElement(cardelements[i])]

\* get_decks after get_deck_metainfo: one Deck per listing row.
get_decks(decks_metainfo) ==
    [i \in 1..Len(decks_metainfo) |->
        LET deck == decks_metainfo[i]
        IN  Deck(deck[1], deck[2], deck[3], deck[4], deck[5], deck[6],
                 get_deck_list(deck[1]))]

(***************************************************************************)
(* The SQLite store.                                                       *)
(***************************************************************************)

TableNames == {"cards", "collection", "decks", "deck_lists", "card_ids"}

\* A new hearth.db: no table exists.
EmptyStore ==
    [ex |-> {}, cards |-> {}, collection |-> {}, decks |-> {},
     deck_lists |-> {}, card_ids |-> {}]

NoErr == "none"

\* The declared primary keys.
PrimaryKey ==
    [cards |-> {"cardname"}, collection |-> {"cardname"},
     decks |-> {"deckid"}, deck_lists |-> {"deckid", "cardname"},
     card_ids |-> {"cardid"}]

\* A statement acts on st.db, the store as the connection sees it.  The
\* sqlite3 module opens a transaction before an INSERT and none before a
\* DROP or CREATE: outside a transaction (st.txn false) these are written
\* to the file st.disk at once, inside one they wait for the commit.

\* DROP TABLE IF EXISTS t
DropTable(st, t) ==
    IF st.err # NoErr THEN st
    ELSE LET dropped(s) == [s EXCEPT !.ex = @ \ {t}, ![t] = {}]
         IN  [st EXCEPT !.db = dropped(@),
                        !.disk = IF st.txn THEN @ ELSE dropped(@)]

\* CREATE TABLE IF NOT EXISTS t
CreateTable(st, t) ==
    IF st.err # NoErr \/ t \in st.db.ex THEN st
    ELSE LET created(s) == [s EXCEPT !.ex = @ \cup {t}, ![t] = {}]
         IN  [st EXCEPT !.db = created(@),
                        !.disk = IF st.txn THEN @ ELSE created(@)]

\* INSERT INTO t: a row whose primary key is taken raises IntegrityError,
\* and the exception ends the caller's loops.
Insert(st, t, row) ==
    IF st.err # NoErr THEN st
    ELSE IF t \notin st.db.ex THEN [st EXCEPT !.err = "OperationalError"]
    ELSE IF \E r \in st.db[t] : \A k \in PrimaryKey[t] : r[k] = row[k]
         THEN [st EXCEPT !.err = "IntegrityError", !.txn = TRUE]
    ELSE [st EXCEPT !.db = [@ EXCEPT ![t] = @ \cup {row}], !.txn = TRUE]

Max(S) == CHOOSE x \in S : \A y \in S : y <= x

\* The rowid SQLite gives a row inserted without its integer primary key.
NextRowid(rows) ==
    IF rows = {} THEN 1 ELSE Max({r.deckid : r \in rows}) + 1

RECURSIVE InsertDeckCardsSkipZero(_, _, _)
\* Faulty variant: cards whose amount is 0 are not stored.
InsertDeckCardsSkipZero(st, last_id, decklist) ==
    IF decklist = << >> THEN st
    ELSE InsertDeckCardsSkipZero(
            IF Head(decklist).amount = 0 THEN st
            ELSE Insert(st, "deck_lists",
                        [deckid |-> last_id,
                         cardname |-> Head(decklist).cardname,
                         amount |-> Head(decklist).amount]),
            last_id, Tail(decklist))

RECURSIVE InsertDeckCards(_, _, _)
\* for card in deck.decklist: INSERT INTO deck_lists (last_id, name, amount)
InsertDeckCards(st, last_id, decklist) ==
    IF decklist = << >> THEN st
    ELSE InsertDeckCards(
            Insert(st, "deck_lists",
                   [deckid |-> last_id, cardname |-> Head(decklist).cardname,
                    amount |-> Head(decklist).amount]),
            last_id, Tail(decklist))

RECURSIVE InsertDecks(_, _)
\* for deck in decks: INSERT INTO decks without deckid, then its cards
\* under cursor.lastrowid.
InsertDecks(st, decklst) ==
    IF decklst = << >> \/ st.err # NoErr THEN st
    ELSE LET deck == Head(decklst)
             last_id == NextRowid(st.db.decks)
             st1 == Insert(st, "decks",
                           [deckid |-> last_id, class |-> deck.hero,
                            type |-> deck.type, rating |-> deck.rating,
                            dust |-> deck.dust, updated |-> deck.updated])
         IN  InsertDecks(InsertDeckCards(st1, last_id, deck.decklist),
                         Tail(decklst))

\* Faulty variant: the deck lists of the last ingestion are not dropped.
populate_deck_db_keeping_lists(decklst, st) ==
    InsertDecks(
        CreateTable(CreateTable(DropTable(st, "decks"), "decks"),
                    "deck_lists"),
        decklst)

populate_deck_db(decklst, st) ==
    InsertDecks(
        CreateTable(CreateTable(DropTable(DropTable(st, "decks"),
                                          "deck_lists"),
                                "decks"),
                    "deck_lists"),
        decklst)

\* card.get('playerClass', 'Neutral')
PlayerClassOf(card) ==
    IF "playerClass" \in DOMAIN card THEN card.playerClass ELSE "Neutral"

\* The values inserted for a catalog card.
CardRow(card) ==
    [cardname |-> card.name, cardset |-> card.cardSet,
     hero |-> PlayerClassOf(card), rarity |-> card.rarity]

RECURSIVE InsertCatalogCardsAnyType(_, _)
\* Faulty variant: the type of the card is not looked at.
InsertCatalogCardsAnyType(st, cardlist) ==
    IF cardlist = << >> THEN st
    ELSE InsertCatalogCardsAnyType(Insert(st, "cards",
                                          CardRow(Head(cardlist))),
                                   Tail(cardlist))

RECURSIVE InsertCatalogCards(_, _)
\* for card in cards[cardset]: if card['type'] != 'Hero': INSERT INTO cards
InsertCatalogCards(st, cardlist) ==
    IF cardlist = << >> THEN st
    ELSE LET card == Head(cardlist)
             st1 == IF card.type # "Hero"
                    THEN Insert(st, "cards", CardRow(card))
                    ELSE st
         IN  InsertCatalogCards(st1, Tail(cardlist))

\* The keys kept by the dict comprehension: a non-empty list, not Hero Skins.
valid_cardsets(cards) ==
    SelectSeq(CardSetOrder,
              LAMBDA cardset : cards[cardset] # << >>
                               /\ cardset # "Hero Skins")

RECURSIVE InsertCardSets(_, _, _)
\* for cardset in valid_cardsets: ...
InsertCardSets(st, cards, cardsets) ==
    IF cardsets = << >> THEN st
    ELSE InsertCardSets(InsertCatalogCards(st, cards[Head(cardsets)]),
                        cards, Tail(cardsets))

populate_card_db(cards, st) ==
    InsertCardSets(CreateTable(DropTable(st, "cards"), "cards"),
                   cards, valid_cardsets(cards))

\* get_cardname: the cached name of card_id, or the name fetched from the
\* card page and then stored.  Returns the store, the name and whether the
\* card page was requested.
get_cardname(card_id, st) ==
    LET st1 == CreateTable(st, "card_ids")
        found == {r \in st1.db.card_ids : r.cardid = card_id}
    IN  IF found # {}
        THEN [st |-> st1, cardname |-> (CHOOSE r \in found : TRUE).cardname,
              fetched |-> FALSE]
        ELSE [st |-> Insert(st1, "card_ids",
                            [cardname |-> CardPage[card_id],
                             cardid |-> card_id]),
              cardname |-> CardPage[card_id], fetched |-> TRUE]

Min(a, b) == IF a <= b THEN a ELSE b

RECURSIVE InsertCollection(_, _)
\* for card in collection['cards']: name lookup, amount = min(count, 2),
\* INSERT INTO collection.  st.fetches counts the card pages requested and
\* st.lookups lists their ids.
InsertCollection(st, entries) ==
    IF entries = << >> \/ st.err # NoErr THEN st
    ELSE LET card == Head(entries)
             g == get_cardname(card.externalID, st)
             st1 == [g.st EXCEPT
                        !.fetches = IF g.fetched THEN @ + 1 ELSE @,
                        !.lookups = IF g.fetched
                                    THEN Append(@, card.externalID) ELSE @]
         IN  InsertCollection(
                Insert(st1, "collection",
                       [cardname |-> g.cardname,
                        amount |-> Min(card.count, 2)]),
                Tail(entries))

\* Faulty variant: the id cache is dropped with the collection.
populate_collection_db_dropping_ids(collection, st) ==
    InsertCollection(
        CreateTable(DropTable(DropTable(st, "card_ids"), "collection"),
                    "collection"),
        collection)

populate_collection_db(collection, st) ==
    InsertCollection(CreateTable(DropTable(st, "collection"), "collection"),
                     collection)

(***************************************************************************)
(* The report query.                                                       *)
(***************************************************************************)

\* The card sets of the query's where clause.
AllowedSets ==
    {"Classic", "Whispers of the Old Gods", "Mean Streets of Gadgetzan",
     "Journey to Un'Goro"}

Null == {}

RECURSIVE GCD(_, _)
GCD(a, b) == IF b = 0 THEN a ELSE GCD(b, a % b)

\* n / d as a REAL; SQLite's division by zero yields NULL.
NullReal == [num |-> 0, den |-> 0]

Real(n, d) ==
    IF d = 0 THEN NullReal
    ELSE [num |-> n \div GCD(n, d), den |-> d \div GCD(n, d)]

\* Faulty variant: cards INNER JOIN deck_lists.
JoinedRowsInner(db) ==
    LET j1 == {[cards |-> c, deck_lists |-> {d}] :
                  c \in db.cards,
                  d \in {x \in db.deck_lists : TRUE}}
        j2 == {r \in j1 :
                  (CHOOSE d \in r.deck_lists : TRUE).cardname
                     = r.cards.cardname}
        j3 == UNION {
                LET m == {o \in db.collection :
                             o.cardname = r.cards.cardname}
                IN  IF m = {}
                    THEN {[cards |-> r.cards, deck_lists |-> r.deck_lists,
                           collection |-> Null]}
                    ELSE {[cards |-> r.cards, deck_lists |-> r.deck_lists,
                           collection |-> {o}] : o \in m}
                : r \in j2}
    IN  {r \in j3 : r.cards.cardset \in AllowedSets}

\* cards LEFT JOIN deck_lists LEFT JOIN collection, then the where clause.
JoinedRows(db) ==
    LET j1 == UNION {
                LET m == {d \in db.deck_lists : d.cardname = c.cardname}
                IN  IF m = {}
                    THEN {[cards |-> c, deck_lists |-> Null]}
                    ELSE {[cards |-> c, deck_lists |-> {d}] : d \in m}
                : c \in db.cards}
        j2 == UNION {
                LET m == {o \in db.collection :
                             o.cardname = r.cards.cardname}
                IN  IF m = {}
                    THEN {[cards |-> r.cards, deck_lists |-> r.deck_lists,
                           collection |-> Null]}
                    ELSE {[cards |-> r.cards, deck_lists |-> r.deck_lists,
                           collection |-> {o}] : o \in m}
                : r \in j1}
    IN  {r \in j2 : r.cards.cardset \in AllowedSets}

\* coalesce(x.amount, 0) of a nullable row
CoalesceAmount(x) ==
    IF x = Null THEN 0 ELSE (CHOOSE r \in x : TRUE).amount

RECURSIVE SumDeckAmounts(_)
\* sum(coalesce(deck_lists.amount, 0)) over the rows of a group
SumDeckAmounts(g) ==
    IF g = {} THEN 0
    ELSE LET r == CHOOSE x \in g : TRUE
         IN  CoalesceAmount(r.deck_lists) + SumDeckAmounts(g \ {r})

\* case when deck_lists.cardname is null then 0 else count(*) end
TotalOf(bare, g) ==
    IF bare.deck_lists = Null THEN 0 ELSE Cardinality(g)

\* Faulty variant: the percentage is taken over the rows of deck_lists.
PercentOfDeckLists(bare, g, db) ==
    IF bare.deck_lists = Null THEN Real(0, 1)
    ELSE Real(Cardinality(g) * 100, Cardinality(db.deck_lists))

\* Faulty variant: the percentage without its case guard.
PercentOfUnguarded(bare, g, db) ==
    Real(Cardinality(g) * 100, Cardinality(db.decks))

\* case when deck_lists.cardname is null then 0.0
\* else count(*) / (select cast(count(*) as double) from decks) * 100.0 end
PercentOf(bare, g, db) ==
    IF bare.deck_lists = Null THEN Real(0, 1)
    ELSE Real(Cardinality(g) * 100, Cardinality(db.decks))

\* One row per group of cards.cardname; the bare columns come from a row
\* of the group.
ReportRows(db) ==
    LET J == JoinedRows(db)
    IN  { LET g == {r \in J : r.cards.cardname = name}
              bare == CHOOSE r \in g : TRUE
          IN  [cardname |-> bare.cards.cardname,
               hero |-> bare.cards.hero,
               total |-> TotalOf(bare, g),
               per_deck |-> Real(SumDeckAmounts(g), Cardinality(g)),
               percent |-> PercentOf(bare, g, db),
               collected |-> CoalesceAmount(bare.collection)]
          : name \in {r.cards.cardname : r \in J} }

NoResults == [status |-> "none", rows |-> {}]

\* The statement needs its four tables; a missing one is "no such table".
get_db_card_percentages(db) ==
    IF {"cards", "deck_lists", "collection", "decks"} \subseteq db.ex
    THEN [status |-> "ok", rows |-> ReportRows(db)]
    ELSE [status |-> "error", rows |-> {}]

(***************************************************************************)
(* The deck crawler: generate_url, get_pagecount, get_deck_metainfo,       *)
(* get_decks and get_decks_per_class against the listing of the site.      *)
(***************************************************************************)

\* Bound of the --count argument.
MaxCount == 60

DECKS_PER_PAGE == 25

\* classes = [2**x for x in range(2, 11)]
classes == <<4, 8, 16, 32, 64, 128, 256, 512, 1024>>

\* classid=None
NoClass == 0

\* The site's listing: the number of decks that match the filter without a
\* class and with each class filter.  A page shows DECKS_PER_PAGE of them.
SiteOf(total, perclass, c8, c1024) ==
    [total |-> total,
     byclass |-> [c \in {classes[i] : i \in DOMAIN classes} |->
                     IF c = 8 THEN c8 ELSE IF c = 1024 THEN c1024
                     ELSE perclass]]

Sites ==
    {SiteOf(700, 75, 75, 75), SiteOf(700, 75, 7, 30),
     SiteOf(2500, 75, 75, 75), SiteOf(6500, 75, 75, 75),
     SiteOf(60, 6, 6, 6), SiteOf(40, 4, 4, 4)}

\* The decks the listing has under a class filter.
Available(site, classid) ==
    IF classid = NoClass THEN site.total ELSE site.byclass[classid]

\* math.ceil(a / b) for a >= 0, b > 0
Ceil(a, b) == (a + b - 1) \div b

\* The deck id in row k of the listing under a class filter.
ListingDeckId(classid, k) == 1000 * (classid + 1) + k

\* The rows of listing page pagenum as the zip of the six column lists.
ListingPage(site, classid, pagenum) ==
    LET first == (pagenum - 1) * DECKS_PER_PAGE
        left == Available(site, classid) - first
        n == IF left <= 0 THEN 0
             ELSE IF left >= DECKS_PER_PAGE THEN DECKS_PER_PAGE ELSE left
    IN  [i \in 1..n |-> Stub(ListingDeckId(classid, first + i))]

\* get_pagecount: the number in the listing's pagination.
get_pagecount(site, classid) ==
    Ceil(Available(site, classid), DECKS_PER_PAGE)

\* A request of a listing page; page 0 is a url without page parameter.
ListingRequest(classid, page) ==
    [url |-> "decks?", class |-> classid, page |-> page]

\* get_latest_patch requests the deck index.
PatchRequest == [url |-> "decks", class |-> NoClass, page |-> 0]

\* generate_url: the requests it makes (the latest patch when no patch is
\* given); the url is its class filter.
generate_url(patch) ==
    IF patch THEN << >> ELSE <<PatchRequest>>

\* int(pagecount * .1)
DefaultCount(pagecount) == pagecount \div 10

\* int((pagecount * DECKS_PER_PAGE * 0.1) / len(classes))
DefaultCountPerClass(pagecount) ==
    (pagecount * DECKS_PER_PAGE) \div (10 * Len(classes))

\* Faulty variant: the rows of the fetched pages without the slice.
SliceNone(output, count) == output

\* output[:count] for count >= 0
SliceTo(output, count) ==
    SubSeq(output, 1, IF count <= Len(output) THEN count ELSE Len(output))

NoSite == SiteOf(0, 0, 0, 0)

\* The crawler before get_decks or get_decks_per_class is called.
NoCrawl ==
    [pc |-> "idle", site |-> NoSite, perclass |-> FALSE, patch |-> FALSE,
     count |-> 0, todo |-> << >>, classid |-> NoClass, mcount |-> 0,
     indicator |-> -1, pagecount |-> 0, pagenum |-> 0, output |-> << >>,
     requests |-> << >>, pages |-> << >>, full |-> TRUE, calls |-> << >>,
     decks |-> << >>]

\* A new hearth.db and no run of main yet.
NewFile ==
    [disk |-> EmptyStore, txn |-> FALSE, runs |-> 0,
     fetched |-> [id \in DOMAIN CardPage |-> 0]]

(***************************************************************************)
(* State.                                                                  *)
(***************************************************************************)

VARIABLES
    db,         \* the store as the cursor sees it
    err,        \* the exception or exit that ended the run, or NoErr
    results,    \* the cursor's report: status and rows
    catalog,    \* the value of get_cards passed to populate_card_db
    decks,      \* the list of Deck objects passed to populate_deck_db
    op,         \* the function last called on the cursor
    pc,         \* main's position
    args,       \* the parsed arguments
    config,     \* config['Configuration']
    net,        \* the external endpoints requested in this run
    commits,    \* the number of conn.commit() calls in this run
    completed,  \* the ingestion steps that returned, in order
    crawl,      \* the deck crawler: its arguments, position, locals and log
    file        \* hearth.db across runs: the committed store and the log

vars == <<db, err, results, catalog, decks, op,
          pc, args, config, net, commits, completed, crawl, file>>

storeVars == <<db, err, results, catalog, decks, op>>
mainVars == <<pc, args, config, net, commits, completed>>
auxVars == <<crawl, file>>

NoArgs ==
    [buildcards |-> FALSE, buildcollection |-> FALSE, builddecks |-> FALSE,
     results |-> FALSE]

NoConfig == [MashapeKey |-> "", AuthSession |-> ""]

Init ==
    /\ db = EmptyStore
    /\ err = NoErr
    /\ results = NoResults
    /\ catalog = CatalogResponse({})
    /\ decks = << >>
    /\ op = "connect"
    /\ pc = "parse"
    /\ args = NoArgs
    /\ config = NoConfig
    /\ net = {}
    /\ commits = 0
    /\ completed = << >>
    /\ crawl = NoCrawl
    /\ file = NewFile

\* A call on a connection without open transaction whose file holds st.
Run(st) ==
    [db |-> st, err |-> NoErr, fetches |-> 0, lookups |-> << >>,
     disk |-> st, txn |-> FALSE]

\* A call on main's connection: the file and the transaction are the run's.
RunOn(f, st) ==
    [db |-> st, err |-> NoErr, fetches |-> 0, lookups |-> << >>,
     disk |-> f.disk, txn |-> f.txn]

RECURSIVE CountFetches(_, _)
\* The card page requests of a call added to the requests so far.
CountFetches(fetched, lookups) ==
    IF lookups = << >> THEN fetched
    ELSE CountFetches([fetched EXCEPT ![Head(lookups)] = @ + 1],
                      Tail(lookups))

\* The file and the log after a call that ended in st.
FileAfter(f, st) ==
    [f EXCEPT !.disk = st.disk, !.txn = st.txn,
              !.fetched = CountFetches(@, st.lookups)]

(***************************************************************************)
(* Spec: the ingestion calls and the report query on one cursor.  The      *)
(* report is the cursor's last statement: main closes the connection after *)
(* it, and the next connection finds the store the ingestions left.        *)
(***************************************************************************)

\* populate_card_db(cards, cursor) on a catalog response
CardIngestion ==
    /\ err = NoErr
    /\ results.status = "none"
    /\ \E cards \in Catalogs :
          LET st == populate_card_db(cards, Run(db))
          IN  /\ catalog' = cards
              /\ db' = st.db
              /\ err' = st.err
    /\ results' = NoResults
    /\ op' = "populate_card_db"
    /\ UNCHANGED <<decks, mainVars>>
    /\ UNCHANGED auxVars

\* populate_collection_db(collection, cursor)
CollectionIngestion ==
    /\ err = NoErr
    /\ results.status = "none"
    /\ \E collection \in Collections :
          LET st == populate_collection_db(collection, Run(db))
          IN  /\ db' = st.db
              /\ err' = st.err
    /\ results' = NoResults
    /\ op' = "populate_collection_db"
    /\ UNCHANGED <<catalog, decks, mainVars>>
    /\ UNCHANGED auxVars

\* populate_deck_db(get_decks(...), cursor)
DeckIngestion ==
    /\ err = NoErr
    /\ results.status = "none"
    /\ \E decks_metainfo \in Listings :
          LET decklst == get_decks(decks_metainfo)
              st == populate_deck_db(decklst, Run(db))
          IN  /\ decks' = decklst
              /\ db' = st.db
              /\ err' = st.err
    /\ results' = NoResults
    /\ op' = "populate_deck_db"
    /\ UNCHANGED <<catalog, mainVars>>
    /\ UNCHANGED auxVars

\* results = get_db_card_percentages(cursor)
ReportQuery ==
    /\ err = NoErr
    /\ results.status = "none"
    /\ results' = get_db_card_percentages(db)
    /\ err' = IF results'.status = "error" THEN "OperationalError" ELSE NoErr
    /\ op' = "get_db_card_percentages"
    /\ UNCHANGED <<db, catalog, decks, mainVars>>
    /\ UNCHANGED auxVars

Next ==
    \/ CardIngestion
    \/ CollectionIngestion
    \/ DeckIngestion
    \/ ReportQuery

Spec == Init /\ [][Next]_vars

(***************************************************************************)
(* SpecMain: one run of main().                                            *)
(***************************************************************************)

ArgSets ==
    [buildcards : BOOLEAN, buildcollection : BOOLEAN, builddecks : BOOLEAN,
     results : BOOLEAN]

Configs == [MashapeKey : {"", "key"}, AuthSession : {"", "session"}]

operselected(a) ==
    a.builddecks \/ a.buildcards \/ a.buildcollection \/ a.results

dbchanged(a) == a.buildcards \/ a.builddecks \/ a.buildcollection

\* The selected ingestion steps in the order main runs them.
SelectedSteps(a) ==
    SelectSeq(<<"buildcards", "buildcollection", "builddecks">>,
              LAMBDA step : a[step])

\* Faulty variant: the error of a step is recorded and main goes on.
StepEndContinue(step, next, e) ==
    /\ pc' = next
    /\ err' = IF e = NoErr THEN err ELSE e
    /\ completed' = IF e = NoErr THEN Append(completed, step) ELSE completed

\* How an ingestion step ends: it returns and main goes on, or its exit or
\* exception e ends the process.
StepEnd(step, next, e) ==
    IF e = NoErr
    THEN /\ pc' = next
         /\ completed' = Append(completed, step)
         /\ err' = err
    ELSE /\ pc' = "exit"
         /\ err' = e
         /\ completed' = completed

\* parse_args, build_configparser, the operselected check (without an
\* operation main prints the error and ends in print_help on the undefined
\* name parser)
main_parse ==
    /\ pc = "parse"
    /\ \E a \in ArgSets, c \in Configs :
          /\ args' = a
          /\ config' = c
          /\ IF operselected(a)
             THEN pc' = "buildcards" /\ err' = err
             ELSE pc' = "exit" /\ err' = "NoOperation"
    /\ UNCHANGED <<db, results, catalog, decks, op, net, commits,
                   completed>>
    /\ UNCHANGED auxVars

\* if args.buildcards: populate_card_db(get_cards(mashape_key), cursor)
main_buildcards ==
    /\ pc = "buildcards"
    /\ IF ~args.buildcards
       THEN /\ pc' = "buildcollection"
            /\ UNCHANGED <<db, err, catalog, op, net, completed, file>>
       ELSE IF Len(config.MashapeKey) <= 0
       THEN /\ StepEnd("buildcards", "buildcollection", "NoMashapeKey")
            /\ UNCHANGED <<db, catalog, op, net, file>>
       ELSE /\ net' = net \cup {"catalog"}
            /\ \/ /\ StepEnd("buildcards", "buildcollection",
                              "JSONDecodeError")
                  /\ UNCHANGED <<db, catalog, op, file>>
               \/ \E cards \in Catalogs :
                     LET st == populate_card_db(cards, RunOn(file, db))
                     IN  /\ catalog' = cards
                         /\ db' = st.db
                         /\ file' = FileAfter(file, st)
                         /\ op' = "populate_card_db"
                         /\ StepEnd("buildcards", "buildcollection", st.err)
    /\ UNCHANGED <<results, decks, args, config, commits, crawl>>

\* if args.buildcollection:
\*     populate_collection_db(get_collection(auth_session), cursor)
main_buildcollection ==
    /\ pc = "buildcollection"
    /\ IF ~args.buildcollection
       THEN /\ pc' = "builddecks"
            /\ UNCHANGED <<db, err, op, net, completed, file>>
       ELSE IF Len(config.AuthSession) <= 0
       THEN /\ StepEnd("buildcollection", "builddecks", "NoAuthSession")
            /\ UNCHANGED <<db, op, net, file>>
       ELSE \/ /\ net' = net \cup {"collection"}
               /\ StepEnd("buildcollection", "builddecks",
                           "JSONDecodeError")
               /\ UNCHANGED <<db, op, file>>
            \/ \E collection \in Collections :
                  LET st == populate_collection_db(collection,
                                                   RunOn(file, db))
                  IN  /\ net' = net \cup {"collection"} \cup
                                IF st.fetches > 0 THEN {"cardpage"} ELSE {}
                      /\ db' = st.db
                      /\ file' = FileAfter(file, st)
                      /\ op' = "populate_collection_db"
                      /\ StepEnd("buildcollection", "builddecks", st.err)
    /\ UNCHANGED <<results, catalog, decks, args, config, commits, crawl>>

\* if args.builddecks: populate_deck_db(get_decks(...), cursor).  The
\* listing rows are whatever get_deck_metainfo returns; a request to the
\* listing may be absent only when no row came back.
main_builddecks ==
    /\ pc = "builddecks"
    /\ IF ~args.builddecks
       THEN /\ pc' = "commit"
            /\ UNCHANGED <<db, err, decks, op, net, completed, file>>
       ELSE \E decks_metainfo \in Listings, listed \in BOOLEAN :
              LET decklst == get_decks(decks_metainfo)
                  st == populate_deck_db(decklst, RunOn(file, db))
              IN  /\ listed \/ decks_metainfo = << >>
                  /\ net' = net \cup
                            (IF listed THEN {"listing"} ELSE {}) \cup
                            (IF decklst # << >> THEN {"deckpage"} ELSE {})
                  /\ decks' = decklst
                  /\ db' = st.db
                  /\ file' = FileAfter(file, st)
                  /\ op' = "populate_deck_db"
                  /\ StepEnd("builddecks", "commit", st.err)
    /\ UNCHANGED <<results, catalog, args, config, commits, crawl>>

\* if dbchanged: conn.commit()
main_commit ==
    /\ pc = "commit"
    /\ commits' = IF dbchanged(args) THEN commits + 1 ELSE commits
    /\ file' = IF dbchanged(args)
               THEN [file EXCEPT !.disk = db, !.txn = FALSE]
               ELSE file
    /\ pc' = "results"
    /\ UNCHANGED <<storeVars, args, config, net, completed, crawl>>

\* if args.results: results = get_db_card_percentages(cursor), whose rows
\* are printed; conn.close()
main_results ==
    /\ pc = "results"
    /\ IF args.results
       THEN /\ results' = get_db_card_percentages(db)
            /\ op' = "get_db_card_percentages"
            /\ IF results'.status = "error"
               THEN pc' = "exit" /\ err' = "OperationalError"
               ELSE pc' = "done" /\ err' = err
       ELSE /\ pc' = "done"
            /\ UNCHANGED <<results, err, op>>
    /\ UNCHANGED <<db, catalog, decks, args, config, net, commits,
                   completed>>
    /\ UNCHANGED auxVars

NextMain ==
    \/ main_parse
    \/ main_buildcards
    \/ main_buildcollection
    \/ main_builddecks
    \/ main_commit
    \/ main_results

SpecMain == Init /\ [][NextMain]_vars

(***************************************************************************)
(* SpecRuns: runs of main() one after another on the same hearth.db, each  *)
(* a new process with --buildcollection and, possibly, --builddecks.       *)
(***************************************************************************)

\* Bound of the number of runs after the first.
MaxRuns == 1

\* The arguments and the configuration of these runs.
runs_parse ==
    /\ main_parse
    /\ args'.buildcollection
    /\ ~args'.buildcards
    /\ ~args'.results
    /\ config' = [MashapeKey |-> "", AuthSession |-> "session"]

\* The process has ended, by conn.close() or by an exit or exception that
\* left the transaction uncommitted, and main is started again: its
\* connection sees what the file holds.
main_again ==
    /\ pc \in {"done", "exit"}
    /\ file.runs < MaxRuns
    /\ file' = [file EXCEPT !.txn = FALSE, !.runs = @ + 1]
    /\ db' = file.disk
    /\ err' = NoErr
    /\ results' = NoResults
    /\ catalog' = CatalogResponse({})
    /\ decks' = << >>
    /\ op' = "connect"
    /\ pc' = "parse"
    /\ args' = NoArgs
    /\ config' = NoConfig
    /\ net' = {}
    /\ commits' = 0
    /\ completed' = << >>
    /\ UNCHANGED crawl

NextRuns ==
    \/ runs_parse
    \/ main_buildcards
    \/ main_buildcollection
    \/ main_builddecks
    \/ main_commit
    \/ main_results
    \/ main_again

SpecRuns == Init /\ [][NextRuns]_vars

(***************************************************************************)
(* SpecListing: one call of get_decks or get_decks_per_class, a step per   *)
(* listing page.                                                           *)
(***************************************************************************)

\* main's builddecks branch calls get_decks_per_class or get_decks with
\* args.count (None and 0 alike are "not count") and args.patch.
crawl_call ==
    /\ crawl.pc = "idle"
    /\ \E site \in Sites, perclass \in BOOLEAN, patch \in BOOLEAN,
          count \in 0..MaxCount :
          crawl' = [crawl EXCEPT !.site = site, !.perclass = perclass,
                                 !.patch = patch, !.count = count,
                                 !.pc = IF perclass THEN "perclass"
                                        ELSE "metainfo"]
    /\ UNCHANGED <<storeVars, mainVars, file>>

\* get_decks_per_class up to its loop: without count, the default from the
\* page count of the listing without class filter.
get_decks_per_class_default ==
    /\ crawl.pc = "perclass"
    /\ crawl' =
          IF crawl.count = 0
          THEN [crawl EXCEPT
                  !.requests = @ \o generate_url(crawl.patch)
                                 \o <<ListingRequest(NoClass, 0)>>,
                  !.count = DefaultCountPerClass(
                               get_pagecount(crawl.site, NoClass)),
                  !.todo = classes,
                  !.pc = "loop"]
          ELSE [crawl EXCEPT !.todo = classes, !.pc = "loop"]
    /\ UNCHANGED <<storeVars, mainVars, file>>

\* for classid in classes: ... ; return decks
get_decks_per_class_loop ==
    /\ crawl.pc = "loop"
    /\ crawl' =
          IF crawl.todo = << >>
          THEN [crawl EXCEPT !.pc = "done"]
          ELSE [crawl EXCEPT !.classid = Head(crawl.todo),
                             !.todo = Tail(crawl.todo),
                             !.pc = "metainfo"]
    /\ UNCHANGED <<storeVars, mainVars, file>>

\* get_deck_metainfo up to its loop: the url, the default count, the
\* number of pages.
get_deck_metainfo_start ==
    /\ crawl.pc = "metainfo"
    /\ LET unset == crawl.count = 0
           read == get_pagecount(crawl.site, crawl.classid)
           count == IF unset THEN DefaultCount(read) ELSE crawl.count
       IN  crawl' =
             [crawl EXCEPT
                !.requests = @ \o generate_url(crawl.patch) \o
                             (IF unset
                              THEN <<ListingRequest(crawl.classid, 0)>>
                              ELSE << >>),
                !.indicator = IF unset THEN read ELSE -1,
                !.mcount = count,
                !.pagecount = Ceil(count, DECKS_PER_PAGE),
                !.pagenum = 1,
                !.output = << >>,
                !.pages = << >>,
                !.full = TRUE,
                !.pc = "page"]
    /\ UNCHANGED <<storeVars, mainVars, file>>

\* One iteration of for pagenum in range(1, int(pagecount)+1).
get_deck_metainfo_page ==
    /\ crawl.pc = "page"
    /\ crawl.pagenum <= crawl.pagecount
    /\ LET request == ListingRequest(crawl.classid,
                                     IF crawl.pagenum = 1 THEN 0
                                     ELSE crawl.pagenum)
           rows == ListingPage(crawl.site, crawl.classid, crawl.pagenum)
       IN  crawl' =
             [crawl EXCEPT
                !.requests = Append(@, request),
                !.pages = Append(@, request),
                !.full = @ /\ Len(rows) = DECKS_PER_PAGE,
                !.output = @ \o rows,
                !.pagenum = @ + 1]
    /\ UNCHANGED <<storeVars, mainVars, file>>

\* return output[:count], and get_decks makes a Deck of every row.
get_decks_return ==
    /\ crawl.pc = "page"
    /\ crawl.pagenum > crawl.pagecount
    /\ LET decks_metainfo == SliceTo(crawl.output, crawl.mcount)
       IN  crawl' =
             [crawl EXCEPT
                !.calls = Append(@, [classid |-> crawl.classid,
                                     count |-> crawl.count,
                                     target |-> crawl.mcount,
                                     indicator |-> crawl.indicator,
                                     pages |-> crawl.pages,
                                     full |-> crawl.full,
                                     rows |-> decks_metainfo]),
                !.decks = @ \o get_decks(decks_metainfo),
                !.pc = IF crawl.perclass THEN "loop" ELSE "done"]
    /\ UNCHANGED <<storeVars, mainVars, file>>

NextListing ==
    \/ crawl_call
    \/ get_decks_per_class_default
    \/ get_decks_per_class_loop
    \/ get_deck_metainfo_start
    \/ get_deck_metainfo_page
    \/ get_decks_return

SpecListing == Init /\ [][NextListing]_vars

(***************************************************************************)
(* Properties.                                                             *)
(***************************************************************************)

QueryTables == {"cards", "deck_lists", "collection", "decks"}

\* The allow-listed catalog cards no deck list names.
UnusedCards ==
    {c \in db.cards :
        /\ c.cardset \in AllowedSets
        /\ ~\E d \in db.deck_lists : d.cardname = c.cardname}

\* The report has exactly one row for card c, and it is the zero row.
HasZeroRow(c) ==
    /\ Cardinality({r \in results.rows : r.cardname = c.cardname}) = 1
    /\ \A r \in results.rows :
          r.cardname = c.cardname =>
             /\ r.total = 0
             /\ r.percent = Real(0, 1)
             /\ r.per_deck = Real(0, 1)
             /\ r.collected =
                   IF \E o \in db.collection : o.cardname = c.cardname
                   THEN (CHOOSE o \in db.collection :
                            o.cardname = c.cardname).amount
                   ELSE 0

\* C1 as stated: in every store state reached by any sequence of
\* ingestions, once get_db_card_percentages has been called every
\* allow-listed catalog card that occurs in no deck list has exactly one
\* report row, with total 0, percent 0.0, average 0 and its collection
\* amount (0 when absent).
C1_Original ==
    results.status # "none" => \A c \in UnusedCards : HasZeroRow(c)

\* C1 amended: the same, in the store states in which the cards, deck_lists,
\* decks and collection tables all exist; there the query succeeds and
\* every allow-listed catalog card that occurs in no deck list has exactly
\* one report row, with total 0, percent 0.0, average 0 and its collection
\* amount (0 when absent).
C1_UnusedCardHasZeroRow ==
    (results.status # "none" /\ QueryTables \subseteq db.ex) =>
        /\ results.status = "ok"
        /\ \A c \in UnusedCards : HasZeroRow(c)

\* C1 witness: a report over a store with decks in which an allow-listed
\* card is in no deck list and is in the collection.
C1_Witness ==
    /\ results.status = "ok"
    /\ db.decks # {}
    /\ \E c \in UnusedCards :
          \E o \in db.collection : o.cardname = c.cardname /\ o.amount = 1

\* The number of deck_lists rows naming a card.
Appearances(cardname) ==
    Cardinality({d \in db.deck_lists : d.cardname = cardname})

\* C2: whenever decks holds totalDecks > 0 rows, every row the report
\* returns has percent = appearances / totalDecks * 100, appearances being
\* the number of deck_lists rows naming the card.
C2_PercentIsAppearancesOverDecks ==
    (results.status = "ok" /\ Cardinality(db.decks) > 0) =>
        \A r \in results.rows :
            r.percent = Real(Appearances(r.cardname) * 100,
                             Cardinality(db.decks))

\* C2 witness: a report over two decks with a card that is in one of them
\* only and a card that is in both.
C2_Witness ==
    /\ results.status = "ok"
    /\ Cardinality(db.decks) = 2
    /\ \E r \in results.rows : r.percent = Real(50, 1)
    /\ \E r \in results.rows : r.percent = Real(100, 1)

\* C3 as stated: when the decks table holds zero rows the query completes
\* without error and every returned row has percent 0.0.
C3_Original ==
    (results.status # "none" /\ "decks" \in db.ex /\ db.decks = {}) =>
        /\ results.status = "ok"
        /\ \A r \in results.rows : r.percent = Real(0, 1)

\* C3 amended: when the decks table holds zero rows and the cards,
\* deck_lists and collection tables exist, the query completes without
\* error and every returned row has percent 0.0.
C3_ZeroDecksZeroPercent ==
    (results.status # "none" /\ QueryTables \subseteq db.ex
        /\ db.decks = {}) =>
        /\ results.status = "ok"
        /\ \A r \in results.rows : r.percent = Real(0, 1)

\* C3 witness: a report with rows over a store whose decks table is empty.
C3_Witness ==
    /\ results.status = "ok"
    /\ "decks" \in db.ex
    /\ db.decks = {}
    /\ Cardinality(results.rows) = 2

\* The ingested decks whose card list contains the card.
DecksWith(cardname) ==
    {i \in DOMAIN decks :
        \E j \in DOMAIN decks[i].decklist :
            decks[i].decklist[j].cardname = cardname}

RECURSIVE SumOver(_, _)
SumOver(S, f) ==
    IF S = {} THEN 0
    ELSE LET x == CHOOSE y \in S : TRUE IN f[x] + SumOver(S \ {x}, f)

\* The copies of the card in ingested deck i.
AmountIn(i, cardname) ==
    SumOver({j \in DOMAIN decks[i].decklist :
                decks[i].decklist[j].cardname = cardname},
            [j \in DOMAIN decks[i].decklist |->
                decks[i].decklist[j].amount])

\* C4: after populate_deck_db(decks) and then get_db_card_percentages,
\* every allow-listed catalog card has a report row whose total is the
\* number of ingested decks containing the card, whose percent is that
\* number over the number of ingested decks, and whose average is the mean
\* of the card's amount over exactly those decks.
C4_RoundTrip ==
    (results.status = "ok") =>
        \A c \in {x \in db.cards : x.cardset \in AllowedSets} :
            /\ \E r \in results.rows : r.cardname = c.cardname
            /\ \A r \in results.rows :
                  r.cardname = c.cardname =>
                     LET with == DecksWith(c.cardname)
                         n == Cardinality(with)
                     IN  /\ r.total = n
                         /\ n > 0 =>
                              /\ r.percent = Real(n * 100, Len(decks))
                              /\ r.per_deck =
                                   Real(SumOver(with,
                                          [i \in DOMAIN decks |->
                                             AmountIn(i, c.cardname)]), n)

\* C4 witness: a report after ingesting two decks, one with "A" twice and
\* "B" once, one with "A" without amount: "A" has total 2 and average 1,
\* "B" has total 1, percent 50 and average its amount.
C4_Witness ==
    /\ results.status = "ok"
    /\ Len(decks) = 2
    /\ \E r \in results.rows :
          r.total = 2 /\ r.per_deck = Real(1, 1)
    /\ \E r \in results.rows :
          r.total = 1 /\ r.percent = Real(50, 1) /\ r.per_deck = Real(1, 1)

\* C5: after populate_deck_db(decks) the decks rows are keyed by the
\* external deck ids of the ingested Decks, one row per external id, and
\* every deck_lists row of a deck carries that external id.
C5_DeckRowsKeepExternalId ==
    ("decks" \in db.ex /\ err = NoErr) =>
        /\ {r.deckid : r \in db.decks} =
              {decks[i].deckid : i \in DOMAIN decks}
        /\ \A i \in DOMAIN decks :
              \A j \in DOMAIN decks[i].decklist :
                  [deckid |-> decks[i].deckid,
                   cardname |-> decks[i].decklist[j].cardname,
                   amount |-> decks[i].decklist[j].amount]
                      \in db.deck_lists

\* C6: a card name mentioned more than once on a deck's class and neutral
\* pages collapses to one entry: no deck's card list has two entries with
\* one name, deck_lists has one row per (deckid, cardname), and the
\* ingestion of the deck does not fail.
C6_DuplicateMentionsCollapse ==
    /\ \A i \in DOMAIN decks :
          \A j, k \in DOMAIN decks[i].decklist :
              decks[i].decklist[j].cardname = decks[i].decklist[k].cardname
                 => j = k
    /\ \A d1, d2 \in db.deck_lists :
          (d1.deckid = d2.deckid /\ d1.cardname = d2.cardname) => d1 = d2
    /\ err # "IntegrityError"

\* C7: in a run of main the commit happens at most once, only after every
\* selected ingestion step has completed, in the order buildcards,
\* buildcollection, builddecks; when a selected step ended in a fatal
\* error the commit is not executed.
C7_CommitOnlyAfterSelectedSteps ==
    /\ commits <= 1
    /\ commits = 1 =>
          /\ completed = SelectedSteps(args)
          /\ pc \in {"results", "done", "exit"}
    /\ err \in {"NoMashapeKey", "NoAuthSession", "JSONDecodeError",
                "IntegrityError"} => commits = 0

\* C7 witness: a run that selected the three steps and committed.
C7_Witness ==
    /\ commits = 1
    /\ completed = <<"buildcards", "buildcollection", "builddecks">>
    /\ db.cards # {} /\ db.collection # {} /\ db.decks # {}

\* A credential that a selected step requires is empty.
MissingCredential ==
    \/ args.buildcards /\ config.MashapeKey = ""
    \/ args.buildcollection /\ config.AuthSession = ""

\* C8: in a run in which a required credential is missing no network
\* request is issued, whatever other steps are selected.
C8_NoRequestWhenCredentialMissing ==
    MissingCredential => net = {}

\* Table t is the same before and after the step.
Same(t) == db'[t] = db[t] /\ (t \in db'.ex <=> t \in db.ex)

\* C9: each ingestion changes only the tables of its own source:
\* populate_card_db cards, populate_collection_db collection (adding to
\* card_ids what it looked up), populate_deck_db decks and deck_lists; no
\* step drops card_ids or removes an entry from it.
C9_FrameOfIngestions ==
    [][ /\ op' = "populate_card_db" =>
             Same("collection") /\ Same("decks") /\ Same("deck_lists")
             /\ Same("card_ids")
        /\ op' = "populate_collection_db" =>
             Same("cards") /\ Same("decks") /\ Same("deck_lists")
        /\ op' = "populate_deck_db" =>
             Same("cards") /\ Same("collection") /\ Same("card_ids")
        /\ db.card_ids \subseteq db'.card_ids
        /\ "card_ids" \in db.ex => "card_ids" \in db'.ex ]_vars

\* C9 witness: the collection was rebuilt with fewer cards than card_ids
\* knows, beside a catalog and a deck corpus.
C9_Witness ==
    /\ Cardinality(db.card_ids) = 2
    /\ Cardinality(db.collection) = 1
    /\ db.cards # {}
    /\ db.decks # {}
    /\ db.deck_lists # {}

\* C10: after populate_card_db no row of cards comes from a catalog card
\* of type "Hero" or of the card set "Hero Skins".
C10_NoHeroRows ==
    \A k \in CardSetKeys :
        \A i \in DOMAIN catalog[k] :
            LET card == catalog[k][i]
            IN  (card.type = "Hero" \/ card.cardSet = "Hero Skins")
                   => CardRow(card) \notin db.cards

\* C10 witness: a response with a Hero, a Hero Skins card and a third card,
\* of which the third alone is in cards.
C10_Witness ==
    /\ op = "populate_card_db"
    /\ Len(catalog["Hero Skins"]) = 1
    /\ \E i \in DOMAIN catalog["Classic"] :
          catalog["Classic"][i].type = "Hero"
    /\ Cardinality(db.cards) = 1

\* The listing requests a call with this count and class filter makes:
\* page 1 without page parameter, &page=N after it.
PagesFor(classid, count) ==
    [p \in 1..Ceil(count, DECKS_PER_PAGE) |->
        ListingRequest(classid, IF p = 1 THEN 0 ELSE p)]

\* The requests of listing pages among all requests.
ListingRequests == SelectSeq(crawl.requests, LAMBDA r : r.url = "decks?")

\* C11: a get_deck_metainfo call with count > 0 requests exactly the listing
\* pages 1..ceil(count/25) in ascending order, page 1 without page
\* parameter and &page=N after it, and when every page it fetched had 25
\* rows it returns exactly count rows, the first count rows of the listing
\* in page order.
C11_PagesAndSlice ==
    /\ \A i \in DOMAIN crawl.calls :
          LET call == crawl.calls[i]
          IN  call.count > 0 =>
                /\ call.pages = PagesFor(call.classid, call.count)
                /\ call.full =>
                     /\ Len(call.rows) = call.count
                     /\ \A k \in 1..call.count :
                           call.rows[k][1] = ListingDeckId(call.classid, k)
    /\ (crawl.pc = "done" /\ ~crawl.perclass /\ crawl.count > 0) =>
          ListingRequests = PagesFor(NoClass, crawl.count)

\* C11 witness: a finished call for 60 decks that fetched three pages of
\* 25 rows and returned 60.
C11_Witness ==
    /\ crawl.pc = "done"
    /\ ~crawl.perclass
    /\ crawl.count = 60
    /\ Len(crawl.calls) = 1
    /\ crawl.calls[1].full
    /\ Len(crawl.calls[1].pages) = 3
    /\ Len(crawl.output) = 75
    /\ Len(crawl.calls[1].rows) = 60

\* C12: a get_deck_metainfo call without count reads the page-count
\* indicator P, then fetches ceil(0.1 * P) listing pages and returns that
\* many pages' worth of rows (25 a page when the pages are full).
C12_DefaultIsTenthOfPages ==
    \A i \in DOMAIN crawl.calls :
        LET call == crawl.calls[i]
            P == call.indicator
        IN  (call.count = 0 /\ ~crawl.perclass) =>
              /\ P = get_pagecount(crawl.site, call.classid)
              /\ Len(call.pages) = Ceil(P, 10)
              /\ call.full =>
                   Len(call.rows) = Ceil(P, 10) * DECKS_PER_PAGE

RECURSIVE DecksOfCalls(_)
\* The Decks of the calls' rows, call after call.
DecksOfCalls(calls) ==
    IF calls = << >> THEN << >>
    ELSE get_decks(Head(calls).rows) \o DecksOfCalls(Tail(calls))

\* C13: get_decks_per_class runs get_deck_metainfo once for each of the
\* class filters 4, 8, ..., 1024 in that order, each with the same target
\* (the given count, or the one default), returns the concatenation of the
\* per-class results in that order, and every class contributes the same
\* number of decks.
C13_SameNumberPerClass ==
    (crawl.pc = "done" /\ crawl.perclass) =>
        /\ Len(crawl.calls) = Len(classes)
        /\ \A i \in DOMAIN crawl.calls :
              /\ crawl.calls[i].classid = classes[i]
              /\ crawl.calls[i].target = crawl.calls[1].target
        /\ crawl.decks = DecksOfCalls(crawl.calls)
        /\ \A i \in DOMAIN crawl.calls :
              Len(crawl.calls[i].rows) = Len(crawl.calls[1].rows)

\* C14: get_cardname requests a card page only for an id without card_ids
\* entry and the id has an entry after the lookup, so over the lookups of
\* all runs on one hearth.db each external id is requested at most once.
C14_FetchedAtMostOnce ==
    /\ \A id \in DOMAIN CardPage : file.fetched[id] <= 1
    /\ (op = "populate_collection_db" /\ err = NoErr) =>
          \A id \in DOMAIN CardPage :
              (\E o \in db.collection : o.cardname = CardPage[id]) =>
                 \E r \in db.card_ids : r.cardid = id

\* The card rows of a deck's class and neutral pages, in page order.
ElementsOf(deckid) ==
    DeckPageOf(deckid).class \o DeckPageOf(deckid).neutral

\* The ingested deck names a card twice.
HasDuplicate(deck) ==
    \E j, k \in DOMAIN deck.decklist :
        j # k /\ deck.decklist[j].cardname = deck.decklist[k].cardname

\* The position of the first ingested deck with a duplicate, or one past
\* the last deck.
FirstDuplicate ==
    IF \E i \in DOMAIN decks : HasDuplicate(decks[i])
    THEN CHOOSE i \in DOMAIN decks :
            /\ HasDuplicate(decks[i])
            /\ \A k \in 1..(i - 1) : ~HasDuplicate(decks[k])
    ELSE Len(decks) + 1

\* C15: a card row without amount pattern is in the deck's card list with
\* amount 0 and is stored as a deck_lists row with amount 0; the other
\* cards of the deck and the later decks are extracted and stored with
\* their amounts, and the ingestion does not fail for the gap (it fails
\* exactly when a deck names a card twice, and has stored every deck before
\* that one).
C15_GapRecordedAsZero ==
    op = "populate_deck_db" =>
        /\ \A i \in DOMAIN decks :
              LET elements == ElementsOf(decks[i].deckid)
              IN  /\ Len(decks[i].decklist) = Len(elements)
                  /\ \A j \in DOMAIN elements :
                        /\ decks[i].decklist[j].cardname = elements[j].a
                        /\ decks[i].decklist[j].amount =
                              IF elements[j].glyph = NoGlyph THEN 0
                              ELSE elements[j].glyph
        /\ err = NoErr <=> FirstDuplicate = Len(decks) + 1
        /\ \A i \in 1..(FirstDuplicate - 1) :
              \A j \in DOMAIN decks[i].decklist :
                  [deckid |-> i,
                   cardname |-> decks[i].decklist[j].cardname,
                   amount |-> decks[i].decklist[j].amount] \in db.deck_lists

\* C15 witness: the deck with the row without amount was ingested first and
\* another deck after it; the row is stored with amount 0, and the other
\* card of the deck and the cards of the later deck with their amounts.
C15_Witness ==
    /\ op = "populate_deck_db"
    /\ err = NoErr
    /\ Len(decks) = 2
    /\ decks[1].deckid = 2
    /\ decks[2].deckid = 1
    /\ [deckid |-> 1, cardname |-> "A", amount |-> 0] \in db.deck_lists
    /\ [deckid |-> 1, cardname |-> "C", amount |-> 1] \in db.deck_lists
    /\ [deckid |-> 2, cardname |-> "A", amount |-> 2] \in db.deck_lists
    /\ [deckid |-> 2, cardname |-> "B", amount |-> 1] \in db.deck_lists

\* C16: in every store state reached by the ingestions each deck_lists row
\* refers to a decks row, a card has at most one deck_lists row per deck
\* and at most one collection row, and every row of the report has
\* total <= the number of decks rows and 0 <= percent <= 100.
C16_ReferencesAndRanges ==
    /\ \A d \in db.deck_lists : \E k \in db.decks : k.deckid = d.deckid
    /\ \A d1, d2 \in db.deck_lists :
          (d1.deckid = d2.deckid /\ d1.cardname = d2.cardname) => d1 = d2
    /\ \A o1, o2 \in db.collection : o1.cardname = o2.cardname => o1 = o2
    /\ \A r \in results.rows :
          /\ r.total <= Cardinality(db.decks)
          /\ r.percent.den > 0
          /\ 0 <= r.percent.num
          /\ r.percent.num <= 100 * r.percent.den

\* C16 witness: a report over two decks with four deck_lists rows, a
\* collection and a catalog, with a collected card that is in every deck
\* (total 2, 100 percent).
C16_Witness ==
    /\ results.status = "ok"
    /\ Cardinality(db.decks) = 2
    /\ Cardinality(db.deck_lists) = 4
    /\ db.collection # {}
    /\ \E r \in results.rows :
          r.total = 2 /\ r.percent = Real(100, 1) /\ r.collected = 2

====
